---------------------------- MODULE Spec2Model ----------------------------
(***************************************************************************)
(* A model of conrod's canvas Split (src/src/canvas/split.rs): the Style   *)
(* resolvers (local value, theme entry for canvas splits, theme default)   *)
(* and the layout pass Split::set / Split::into_ui that writes one canvas  *)
(* per Split into the Ui.                                                  *)
(*                                                                         *)
(* Scalars (f64 in the source) are exact rationals with denominator Den:   *)
(* the integer n stands for n / Den.  Every input is a whole number of     *)
(* pixels, and Den is chosen so that every division the pass performs is   *)
(* exact.  Floating point rounding is not modelled.                        *)
(***************************************************************************)
EXTENDS Integers, Sequences, FiniteSets, TLC

VARIABLES
    tree,      \* the Split tree handed to set: CanvasId -> Split
    theme,     \* ui.theme
    win,       \* <<ui.win_w, ui.win_h>>
    store,     \* the Ui's canvases: CanvasId -> Option of canvas
    stack,     \* the call stack of into_ui, innermost call last
    passes,    \* number of completed calls of set
    built,     \* number of builder calls made on the Split under construction
    args,      \* per CanvasId, the (dim, xy) into_ui was called with in this pass
    locals,    \* per CanvasId, pad_dim and the padded centre into_ui computed
    updates    \* per CanvasId, the number of ui::update_canvas calls in this pass

vars == <<tree, theme, win, store, stack, passes, built, args, locals, updates>>

---------------------------------------------------------------------------
(* Bounds of the model. *)

\* Largest number of children of the root Split.
MaxKids == 2
\* Number of times set is run on the same tree.
MaxPasses == 2
\* Number of builder calls made on one Split.
MaxBuilt == 2
\* Number of attributes the theme's canvas split entry sets.
MaxKindSet == 1

---------------------------------------------------------------------------
(* Scalars. *)

RECURSIVE Factorial(_)
Factorial(n) == IF n <= 1 THEN 1 ELSE n * Factorial(n - 1)

\* Common denominator: a root share (/ up to MaxKids), a nested share
\* (/ up to 2), and the halving of a length into a centre offset.
Den == Factorial(MaxKids) * 2 * 2

\* A whole number of pixels.
Px(n) == n * Den

\* x / n for n > 0 (f64 division; exact on the inputs of the model).
Div(x, n) == x \div n

\* `x as i32`: truncation toward zero of the scalar x.
AsI32(x) == IF x >= 0 THEN x \div Den ELSE -((-x) \div Den)

Vec2Add(a, b) == <<a[1] + b[1], a[2] + b[2]>>
Vec2Sub(a, b) == <<a[1] - b[1], a[2] - b[2]>>

---------------------------------------------------------------------------
(* Option<T>: None is the empty sequence, Some(v) the one-element one. *)

None == << >>
Some(v) == <<v>>
IsSome(o) == Len(o) = 1
\* Option::or
OptOr(a, b) == IF IsSome(a) THEN a ELSE b
\* Option::unwrap_or
UnwrapOr(a, d) == IF IsSome(a) THEN a[1] ELSE d

---------------------------------------------------------------------------
(* Style, Padding, Margin and Split, and the builder methods. *)

PaddingNew == [maybe_top |-> None, maybe_bottom |-> None,
               maybe_left |-> None, maybe_right |-> None]

MarginNew == [maybe_top |-> None, maybe_bottom |-> None,
              maybe_left |-> None, maybe_right |-> None]

StyleNew == [maybe_frame |-> None, maybe_frame_color |-> None,
             maybe_color |-> None, padding |-> PaddingNew, margin |-> MarginNew]

SplitNew(id) == [id |-> id, maybe_splits |-> None, maybe_length |-> None,
                 style |-> StyleNew]

length(split, len) == [split EXCEPT !.maybe_length = Some(len)]

\* The child Splits are held by their CanvasIds.
flow(split, dir, splits) == [split EXCEPT !.maybe_splits = Some(<<dir, splits>>)]

pad_left(split, v) == [split EXCEPT !.style.padding.maybe_left = Some(v)]
pad_right(split, v) == [split EXCEPT !.style.padding.maybe_right = Some(v)]
pad_top(split, v) == [split EXCEPT !.style.padding.maybe_top = Some(v)]
pad_bottom(split, v) == [split EXCEPT !.style.padding.maybe_bottom = Some(v)]
pad(split, p) == pad_bottom(pad_top(pad_right(pad_left(split, p), p), p), p)

margin_left(split, v) == [split EXCEPT !.style.margin.maybe_left = Some(v)]
margin_right(split, v) == [split EXCEPT !.style.margin.maybe_right = Some(v)]
margin_top(split, v) == [split EXCEPT !.style.margin.maybe_top = Some(v)]
margin_bottom(split, v) == [split EXCEPT !.style.margin.maybe_bottom = Some(v)]
margin(split, p) ==
    margin_bottom(margin_top(margin_right(margin_left(split, p), p), p), p)

color(split, c) == [split EXCEPT !.style.maybe_color = Some(c)]
frame(split, width) == [split EXCEPT !.style.maybe_frame = Some(width)]
frame_color(split, c) == [split EXCEPT !.style.maybe_frame_color = Some(c)]

---------------------------------------------------------------------------
(* Style's resolvers. *)

Style_color(self, th) ==
    LET entry == th.maybe_canvas_split
        themed == IF IsSome(entry)
                    THEN Some(UnwrapOr(entry[1].maybe_color, th.background_color))
                    ELSE None
    IN UnwrapOr(OptOr(self.maybe_color, themed), th.background_color)

\* Style::frame with the theme's entry consulted before the Split's own value.
Style_frame_ThemeFirst(self, th) ==
    LET entry == th.maybe_canvas_split
        themed == IF IsSome(entry)
                    THEN Some(UnwrapOr(entry[1].maybe_frame, th.frame_width))
                    ELSE None
    IN UnwrapOr(OptOr(themed, self.maybe_frame), th.frame_width)

Style_frame(self, th) ==
    LET entry == th.maybe_canvas_split
        themed == IF IsSome(entry)
                    THEN Some(UnwrapOr(entry[1].maybe_frame, th.frame_width))
                    ELSE None
    IN UnwrapOr(OptOr(self.maybe_frame, themed), th.frame_width)

Style_frame_color(self, th) ==
    LET entry == th.maybe_canvas_split
        themed == IF IsSome(entry)
                    THEN Some(UnwrapOr(entry[1].maybe_frame_color, th.frame_color))
                    ELSE None
    IN UnwrapOr(OptOr(self.maybe_frame_color, themed), th.frame_color)

Style_padding(self, th) ==
    LET entry == th.maybe_canvas_split
    IN [top |->
          UnwrapOr(OptOr(self.padding.maybe_top,
                         IF IsSome(entry)
                           THEN Some(UnwrapOr(entry[1].padding.maybe_top, th.padding.top))
                           ELSE None),
                   th.padding.top),
        bottom |->
          UnwrapOr(OptOr(self.padding.maybe_bottom,
                         IF IsSome(entry)
                           THEN Some(UnwrapOr(entry[1].padding.maybe_bottom, th.padding.bottom))
                           ELSE None),
                   th.padding.bottom),
        left |->
          UnwrapOr(OptOr(self.padding.maybe_left,
                         IF IsSome(entry)
                           THEN Some(UnwrapOr(entry[1].padding.maybe_left, th.padding.left))
                           ELSE None),
                   th.padding.left),
        right |->
          UnwrapOr(OptOr(self.padding.maybe_right,
                         IF IsSome(entry)
                           THEN Some(UnwrapOr(entry[1].padding.maybe_right, th.padding.right))
                           ELSE None),
                   th.padding.right)]

Style_margin(self, th) ==
    LET entry == th.maybe_canvas_split
    IN [top |->
          UnwrapOr(OptOr(self.margin.maybe_top,
                         IF IsSome(entry)
                           THEN Some(UnwrapOr(entry[1].margin.maybe_top, th.margin.top))
                           ELSE None),
                   th.margin.top),
        bottom |->
          UnwrapOr(OptOr(self.margin.maybe_bottom,
                         IF IsSome(entry)
                           THEN Some(UnwrapOr(entry[1].margin.maybe_bottom, th.margin.bottom))
                           ELSE None),
                   th.margin.bottom),
        left |->
          UnwrapOr(OptOr(self.margin.maybe_left,
                         IF IsSome(entry)
                           THEN Some(UnwrapOr(entry[1].margin.maybe_left, th.margin.left))
                           ELSE None),
                   th.margin.left),
        right |->
          UnwrapOr(OptOr(self.margin.maybe_right,
                         IF IsSome(entry)
                           THEN Some(UnwrapOr(entry[1].margin.maybe_right, th.margin.right))
                           ELSE None),
                   th.margin.right)]

---------------------------------------------------------------------------
(* The inputs of a pass: the tree, the theme and the window. *)

Direction == {"Up", "Down", "Left", "Right"}

RootId == 1
\* The identifiers a Ui may hold; the last one is never used by a tree.
CanvasIds == 1 .. (MaxKids + 4)

\* ui.win_w, ui.win_h in pixels.
WinDims == {<<200, 100>>, <<90, 60>>}

\* The maybe_length of a child of the root.
LengthOpts == {None, Some(Px(30)), Some(Px(70))}

\* The maybe_length of the children of a nested Split.
SubGroups == {<<None>>, <<Some(Px(30))>>, <<None, None>>, <<Some(Px(20)), None>>}
SubDirections == {"Down", "Right"}

SeqsUpTo(S, n) == UNION {[1 .. k -> S] : k \in 0 .. n}

\* The styles given to the root: none, margin, frame and padding that differ
\* per edge, and a padding larger than the window.
RootStyles ==
    { SplitNew(RootId),
      pad_bottom(pad_left(margin_top(margin_left(frame(SplitNew(RootId), Px(2)),
          Px(10)), Px(4)), Px(6)), Px(8)),
      pad(SplitNew(RootId), Px(60)) }

\* The style of a child that has children of its own.
NestStyle(id) == pad_top(margin_right(frame(SplitNew(id), Px(1)), Px(4)), Px(2))

ThemeZero ==
    [background_color |-> "background", frame_width |-> 0, frame_color |-> "black",
     padding |-> [top |-> 0, bottom |-> 0, left |-> 0, right |-> 0],
     margin |-> [top |-> 0, bottom |-> 0, left |-> 0, right |-> 0],
     maybe_canvas_split |-> None]

ThemeKind ==
    [background_color |-> "background", frame_width |-> Px(1), frame_color |-> "black",
     padding |-> [top |-> Px(1), bottom |-> Px(1), left |-> Px(1), right |-> Px(1)],
     margin |-> [top |-> 0, bottom |-> 0, left |-> 0, right |-> 0],
     maybe_canvas_split |-> Some(margin_bottom(SplitNew(RootId), Px(2)).style)]

Themes == {ThemeZero, ThemeKind}

\* A tree: the root, k children of the root (ids 2 .. k+1) with the given
\* lengths, and under the last of them the children sub (ids k+2 ..).
MakeTree(root, rootflow, sub) ==
    LET lens == IF IsSome(rootflow) THEN rootflow[1][2] ELSE << >>
        k == Len(lens)
        kidids == [i \in 1 .. k |-> i + 1]
        subids == IF IsSome(sub) THEN [j \in 1 .. Len(sub[1][2]) |-> k + 1 + j] ELSE << >>
        n == 1 + k + Len(subids)
        WithLen(split, ml) == IF IsSome(ml) THEN length(split, ml[1]) ELSE split
    IN [id \in 1 .. n |->
          IF id = RootId
            THEN IF IsSome(rootflow) THEN flow(root, rootflow[1][1], kidids) ELSE root
          ELSE IF id <= k
            THEN WithLen(SplitNew(id), lens[id - 1])
          ELSE IF id = k + 1
            THEN IF IsSome(sub)
                   THEN WithLen(flow(NestStyle(id), sub[1][1], subids), lens[id - 1])
                   ELSE WithLen(SplitNew(id), lens[id - 1])
          ELSE WithLen(SplitNew(id), sub[1][2][id - k - 1])]

Trees ==
    { MakeTree(root, rootflow, sub) :
        <<root, rootflow, sub>> \in
          { t \in RootStyles
                  \X ({None} \cup {Some(<<d, l>>) : <<d, l>> \in Direction \X SeqsUpTo(LengthOpts, MaxKids)})
                  \X ({None} \cup {Some(<<d, g>>) : <<d, g>> \in SubDirections \X SubGroups}) :
              IsSome(t[3]) => (IsSome(t[2]) /\ Len(t[2][1][2]) >= 1) } }

NodeIds == DOMAIN tree

\* The children of a Split, in declared order.
Splits(id) == IF IsSome(tree[id].maybe_splits) THEN tree[id].maybe_splits[1][2] ELSE << >>

---------------------------------------------------------------------------
(* Split::into_ui. *)

\* (stuck_length, num_not_stuck): the fold over the children.
RECURSIVE StuckFold(_, _)
StuckFold(splits, acc) ==
    IF splits = << >> THEN acc
    ELSE LET split == tree[Head(splits)]
         IN StuckFold(Tail(splits),
                      IF IsSome(split.maybe_length)
                        THEN <<acc[1] + split.maybe_length[1], acc[2] - 1>>
                        ELSE acc)

\* The flexible share computed without taking the fixed lengths off.
FlexSplitDim_IgnoreStuck(direction, pad_dim, stuck_length, num_not_stuck) ==
    IF num_not_stuck = 0 THEN <<0, 0>>
    ELSE IF direction \in {"Up", "Down"}
      THEN <<pad_dim[1], IF pad_dim[2] > 0 THEN Div(pad_dim[2], num_not_stuck) ELSE 0>>
      ELSE <<IF pad_dim[1] > 0 THEN Div(pad_dim[1], num_not_stuck) ELSE 0, pad_dim[2]>>

\* The flexible share not divided among the flexible children.
FlexSplitDim_NoDivide(direction, pad_dim, stuck_length, num_not_stuck) ==
    IF num_not_stuck = 0 THEN <<0, 0>>
    ELSE IF direction \in {"Up", "Down"}
      THEN <<pad_dim[1], IF pad_dim[2] - stuck_length > 0 THEN pad_dim[2] - stuck_length ELSE 0>>
      ELSE <<IF pad_dim[1] - stuck_length > 0 THEN pad_dim[1] - stuck_length ELSE 0, pad_dim[2]>>

\* Dimensions for Splits that haven't been given a specific length.
FlexSplitDim(direction, pad_dim, stuck_length, num_not_stuck) ==
    IF num_not_stuck = 0 THEN <<0, 0>>
    ELSE IF direction \in {"Up", "Down"}
      THEN LET remaining_height == pad_dim[2] - stuck_length
               height == IF remaining_height > 0
                           THEN Div(remaining_height, num_not_stuck)
                           ELSE 0
           IN <<pad_dim[1], height>>
      ELSE LET remaining_width == pad_dim[1] - stuck_length
               width == IF remaining_width > 0
                          THEN Div(remaining_width, num_not_stuck)
                          ELSE 0
           IN <<width, pad_dim[2]>>

\* The `current_xy` at the beginning of the pad_dim.
StartXY(direction, xy, pad_dim) ==
    CASE direction = "Down"  -> <<xy[1], xy[2] + Div(pad_dim[2], 2)>>
      [] direction = "Up"    -> <<xy[1], xy[2] - Div(pad_dim[2], 2)>>
      [] direction = "Left"  -> <<xy[1] + Div(pad_dim[1], 2), xy[2]>>
      [] direction = "Right" -> <<xy[1] - Div(pad_dim[1], 2), xy[2]>>

\* The fixed length put on the wrong axis for Up and Down.
ChildSplitDim_SwappedAxes(split, direction, split_dim) ==
    IF IsSome(split.maybe_length)
      THEN <<split.maybe_length[1], split_dim[2]>>
      ELSE split_dim

\* The split_dim of one child inside the loop.
ChildSplitDim(split, direction, split_dim) ==
    IF IsSome(split.maybe_length)
      THEN IF direction \in {"Up", "Down"}
             THEN <<split_dim[1], split.maybe_length[1]>>
             ELSE <<split.maybe_length[1], split_dim[2]>>
      ELSE split_dim

\* The shift by half the current length only, the previous length forgotten.
ShiftXY_NoPrev(direction, current_xy, split_dim, prev_length) ==
    CASE direction = "Down" ->
           << <<current_xy[1], current_xy[2] - Div(split_dim[2], 2)>>, split_dim[2] >>
      [] direction = "Up" ->
           << <<current_xy[1], current_xy[2] + Div(split_dim[2], 2)>>, split_dim[2] >>
      [] direction = "Left" ->
           << <<current_xy[1] - Div(split_dim[1], 2), current_xy[2]>>, split_dim[1] >>
      [] direction = "Right" ->
           << <<current_xy[1] + Div(split_dim[1], 2), current_xy[2]>>, split_dim[1] >>

\* Shift xy into position for the current split: (current_xy, prev_length).
ShiftXY(direction, current_xy, split_dim, prev_length) ==
    CASE direction = "Down" ->
           << <<current_xy[1],
                current_xy[2] - (Div(split_dim[2], 2) + Div(prev_length, 2))>>,
              split_dim[2] >>
      [] direction = "Up" ->
           << <<current_xy[1],
                current_xy[2] + (Div(split_dim[2], 2) + Div(prev_length, 2))>>,
              split_dim[2] >>
      [] direction = "Left" ->
           << <<current_xy[1] - (Div(split_dim[1], 2) + Div(prev_length, 2)),
                current_xy[2]>>,
              split_dim[1] >>
      [] direction = "Right" ->
           << <<current_xy[1] + (Div(split_dim[1], 2) + Div(prev_length, 2)),
                current_xy[2]>>,
              split_dim[1] >>

\* The widget area into_ui hands to ui::update_canvas.
WidgetArea(xy, dim, frame_dim, pad_dim) == [xy |-> xy, dim |-> dim]

\* into_ui from its entry to the start of the loop over the children: the
\* locals of the call.  flow_xy, stuck_length, split_dim and current_xy are
\* set only when the Split has children.
IntoUiEnter(id, dim0, xy0) ==
    LET split == tree[id]
        style == split.style
        c == Style_color(style, theme)
        fc == Style_frame_color(style, theme)
        fr == Style_frame(style, theme)
        pd == Style_padding(style, theme)
        mgn == Style_margin(style, theme)
        mgn_offset == <<mgn.left - mgn.right, mgn.bottom - mgn.top>>
        dim == Vec2Sub(dim0, <<mgn.left + mgn.right, mgn.top + mgn.bottom>>)
        frame_dim == Vec2Sub(dim, <<fr * 2, fr * 2>>)
        pad_offset == <<pd.bottom - pd.top, pd.left - pd.right>>
        pad_dim == Vec2Sub(frame_dim, <<pd.left + pd.right, pd.top + pd.bottom>>)
        xy == Vec2Add(xy0, mgn_offset)
        has_splits == IsSome(split.maybe_splits)
        direction == IF has_splits THEN split.maybe_splits[1][1] ELSE "Down"
        splits == IF has_splits THEN split.maybe_splits[1][2] ELSE << >>
        flow_xy == IF has_splits THEN Vec2Add(xy, pad_offset) ELSE xy
        stuck == StuckFold(splits, <<0, Len(splits)>>)
    IN [id |-> id, color |-> c, frame_color |-> fc, pad |-> pd,
        dim |-> dim, frame_dim |-> frame_dim, pad_dim |-> pad_dim, xy |-> xy,
        direction |-> direction, splits |-> splits, flow_xy |-> flow_xy,
        stuck_length |-> stuck[1], num_not_stuck |-> stuck[2],
        split_dim |-> FlexSplitDim(direction, pad_dim, stuck[1], stuck[2]),
        prev_length |-> 0,
        current_xy |-> StartXY(direction, flow_xy, pad_dim),
        i |-> 1]

\* The Element: the frame rectangle and the inner rectangle, both shifted
\* to xy, in a collage of the truncated frame_dim.
Element(dim, frame_dim, fc, c, xy) ==
    [w |-> AsI32(frame_dim[1]), h |-> AsI32(frame_dim[2]),
     forms |-> << [w |-> dim[1], h |-> dim[2], fill |-> fc, shift |-> xy],
                  [w |-> frame_dim[1], h |-> frame_dim[2], fill |-> c, shift |-> xy] >>]

\* ui::update_canvas: the canvas of `id` is replaced.
update_canvas(ui, id, kind, xy, widget_area_xy, widget_area_dim, pd, maybe_element) ==
    [ui EXCEPT ![id] = Some([kind |-> kind, xy |-> xy,
                             widget_area_xy |-> widget_area_xy,
                             widget_area_dim |-> widget_area_dim,
                             pad |-> pd, maybe_element |-> maybe_element])]

Top == stack[Len(stack)]

\* The loop stopping one child early.
LoopDone_OffByOne(f) == f.i >= Len(f.splits)

\* The loop over the children of the call f has visited them all.
LoopDone(f) == f.i > Len(f.splits)

EnterRecord(f) ==
    [dim |-> f.dim, frame_dim |-> f.frame_dim, pad_dim |-> f.pad_dim,
     xy |-> f.xy, flow_xy |-> f.flow_xy]

---------------------------------------------------------------------------
(* The pass. *)

\* The pass started from the position of the root's canvas in the Ui.
SetOrigin_FromUi == IF store[RootId] # None THEN store[RootId][1].xy ELSE <<0, 0>>

\* The point set hands to into_ui.
SetOrigin == <<0, 0>>

\* Split::set: into_ui on the root with the window's dimensions at [0, 0].
Set ==
    /\ stack = << >>
    /\ passes < MaxPasses
    /\ LET dim == <<Px(win[1]), Px(win[2])>>
           f == IntoUiEnter(RootId, dim, SetOrigin)
       IN /\ stack' = <<f>>
          /\ args' = [id \in CanvasIds |->
                        IF id = RootId THEN Some([dim |-> dim, xy |-> SetOrigin]) ELSE None]
          /\ locals' = [id \in CanvasIds |->
                        IF id = RootId THEN Some(EnterRecord(f)) ELSE None]
    /\ updates' = [id \in CanvasIds |-> 0]
    /\ UNCHANGED <<tree, theme, win, store, passes, built>>

\* One turn of the loop over the children: the child's split_dim, the shift
\* of current_xy, and the recursive call, up to the child's own loop.
Call ==
    /\ stack # << >>
    /\ ~LoopDone(Top)
    /\ LET f == Top
           kid == f.splits[f.i]
           split_dim == ChildSplitDim(tree[kid], f.direction, f.split_dim)
           shifted == ShiftXY(f.direction, f.current_xy, split_dim, f.prev_length)
           g == IntoUiEnter(kid, split_dim, shifted[1])
       IN /\ stack' = Append(
                [stack EXCEPT ![Len(stack)] =
                    [f EXCEPT !.current_xy = shifted[1],
                              !.prev_length = shifted[2],
                              !.i = f.i + 1]],
                g)
          /\ args' = [args EXCEPT ![kid] = Some([dim |-> split_dim, xy |-> shifted[1]])]
          /\ locals' = [locals EXCEPT ![kid] = Some(EnterRecord(g))]
    /\ UNCHANGED <<tree, theme, win, store, passes, built, updates>>

\* After the loop: the Element is built, the canvas is written and the
\* call returns.
Update ==
    /\ stack # << >>
    /\ LoopDone(Top)
    /\ LET f == Top
           element == Element(f.dim, f.frame_dim, f.frame_color, f.color, f.xy)
           area == WidgetArea(f.xy, f.dim, f.frame_dim, f.pad_dim)
       IN /\ store' = update_canvas(store, f.id, "Split", f.xy, area.xy, area.dim,
                                    f.pad, Some(element))
          /\ updates' = [updates EXCEPT ![f.id] = @ + 1]
    /\ stack' = SubSeq(stack, 1, Len(stack) - 1)
    /\ passes' = IF Len(stack) = 1 THEN passes + 1 ELSE passes
    /\ UNCHANGED <<tree, theme, win, built, args, locals>>

Init ==
    /\ tree \in Trees
    /\ theme \in Themes
    /\ win \in WinDims
    /\ store = [id \in CanvasIds |-> None]
    /\ stack = << >>
    /\ passes = 0
    /\ built = 0
    /\ args = [id \in CanvasIds |-> None]
    /\ locals = [id \in CanvasIds |-> None]
    /\ updates = [id \in CanvasIds |-> 0]

Next == Set \/ Call \/ Update

Spec == Init /\ [][Next]_vars

---------------------------------------------------------------------------
(* The builder methods applied to one Split under a theme: the states in   *)
(* which the resolvers of Style are examined.                              *)

\* The values handed to the builder methods.
BuilderScalars == {Px(3)}
BuilderColors == {"red"}

Attributes ==
    {"frame", "frame_color", "color",
     "padding.top", "padding.bottom", "padding.left", "padding.right",
     "margin.top", "margin.bottom", "margin.left", "margin.right"}

\* A canvas split entry of the theme that sets the attributes in S, each to
\* a value no other attribute and no other tier has.
KindStyle(S) ==
    LET Opt(a, v) == IF a \in S THEN Some(v) ELSE None
    IN [maybe_frame |-> Opt("frame", Px(21)),
        maybe_frame_color |-> Opt("frame_color", "kind_frame_color"),
        maybe_color |-> Opt("color", "kind_color"),
        padding |-> [maybe_top |-> Opt("padding.top", Px(22)),
                     maybe_bottom |-> Opt("padding.bottom", Px(23)),
                     maybe_left |-> Opt("padding.left", Px(24)),
                     maybe_right |-> Opt("padding.right", Px(25))],
        margin |-> [maybe_top |-> Opt("margin.top", Px(26)),
                    maybe_bottom |-> Opt("margin.bottom", Px(27)),
                    maybe_left |-> Opt("margin.left", Px(28)),
                    maybe_right |-> Opt("margin.right", Px(29))]]

\* The theme's defaults, one value per attribute.
ThemeDefaults(entry) ==
    [background_color |-> "background", frame_width |-> Px(41), frame_color |-> "black",
     padding |-> [top |-> Px(42), bottom |-> Px(43), left |-> Px(44), right |-> Px(45)],
     margin |-> [top |-> Px(46), bottom |-> Px(47), left |-> Px(48), right |-> Px(49)],
     maybe_canvas_split |-> entry]

StyleThemes ==
    {ThemeDefaults(None)} \cup
    {ThemeDefaults(Some(KindStyle(S))) :
        S \in {T \in SUBSET Attributes : Cardinality(T) <= MaxKindSet}}

\* One builder call on the Split under construction.
Build(split) ==
    /\ built < MaxBuilt
    /\ built' = built + 1
    /\ tree' = [tree EXCEPT ![RootId] = split]
    /\ UNCHANGED <<theme, win, store, stack, passes, args, locals, updates>>

PadLeft == \E v \in BuilderScalars : Build(pad_left(tree[RootId], v))
PadRight == \E v \in BuilderScalars : Build(pad_right(tree[RootId], v))
PadTop == \E v \in BuilderScalars : Build(pad_top(tree[RootId], v))
PadBottom == \E v \in BuilderScalars : Build(pad_bottom(tree[RootId], v))
Pad == \E v \in BuilderScalars : Build(pad(tree[RootId], v))
MarginLeft == \E v \in BuilderScalars : Build(margin_left(tree[RootId], v))
MarginRight == \E v \in BuilderScalars : Build(margin_right(tree[RootId], v))
MarginTop == \E v \in BuilderScalars : Build(margin_top(tree[RootId], v))
MarginBottom == \E v \in BuilderScalars : Build(margin_bottom(tree[RootId], v))
MarginAll == \E v \in BuilderScalars : Build(margin(tree[RootId], v))
SetColor == \E c \in BuilderColors : Build(color(tree[RootId], c))
SetFrame == \E v \in BuilderScalars : Build(frame(tree[RootId], v))
SetFrameColor == \E c \in BuilderColors : Build(frame_color(tree[RootId], c))

InitStyle ==
    /\ tree = [id \in {RootId} |-> SplitNew(RootId)]
    /\ theme \in StyleThemes
    /\ win \in WinDims
    /\ store = [id \in CanvasIds |-> None]
    /\ stack = << >>
    /\ passes = 0
    /\ built = 0
    /\ args = [id \in CanvasIds |-> None]
    /\ locals = [id \in CanvasIds |-> None]
    /\ updates = [id \in CanvasIds |-> 0]

NextStyle ==
    \/ PadLeft \/ PadRight \/ PadTop \/ PadBottom \/ Pad
    \/ MarginLeft \/ MarginRight \/ MarginTop \/ MarginBottom \/ MarginAll
    \/ SetColor \/ SetFrame \/ SetFrameColor

SpecStyle == InitStyle /\ [][NextStyle]_vars

---------------------------------------------------------------------------
(* C1 *)

\* The three tiers: the local value; else the value of the theme's canvas
\* split entry, when there is an entry and it sets the attribute; else the
\* theme's default.
ThreeTier(local, kind, default) ==
    IF local # None THEN local[1]
    ELSE IF kind # None THEN kind[1]
    ELSE default

\* The theme's canvas split entry, or one that sets nothing when there is none.
KindEntry == IF theme.maybe_canvas_split = None THEN StyleNew ELSE theme.maybe_canvas_split[1]

\* C1: every attribute Style resolves (color, frame, frame color, the four
\* padding edges, the four margin edges) is the Split's own value when set,
\* else the theme's canvas split entry's value when the theme has an entry
\* and the entry sets it, else the theme's default.
C1_ThreeTierResolution ==
    LET st == tree[RootId].style
        pd == Style_padding(st, theme)
        mg == Style_margin(st, theme)
    IN /\ Style_color(st, theme) =
            ThreeTier(st.maybe_color, KindEntry.maybe_color,
                      theme.background_color)
       /\ Style_frame(st, theme) =
            ThreeTier(st.maybe_frame, KindEntry.maybe_frame,
                      theme.frame_width)
       /\ Style_frame_color(st, theme) =
            ThreeTier(st.maybe_frame_color, KindEntry.maybe_frame_color,
                      theme.frame_color)
       /\ pd.top = ThreeTier(st.padding.maybe_top,
                             KindEntry.padding.maybe_top, theme.padding.top)
       /\ pd.bottom = ThreeTier(st.padding.maybe_bottom,
                                KindEntry.padding.maybe_bottom, theme.padding.bottom)
       /\ pd.left = ThreeTier(st.padding.maybe_left,
                              KindEntry.padding.maybe_left, theme.padding.left)
       /\ pd.right = ThreeTier(st.padding.maybe_right,
                               KindEntry.padding.maybe_right, theme.padding.right)
       /\ mg.top = ThreeTier(st.margin.maybe_top,
                             KindEntry.margin.maybe_top, theme.margin.top)
       /\ mg.bottom = ThreeTier(st.margin.maybe_bottom,
                                KindEntry.margin.maybe_bottom, theme.margin.bottom)
       /\ mg.left = ThreeTier(st.margin.maybe_left,
                              KindEntry.margin.maybe_left, theme.margin.left)
       /\ mg.right = ThreeTier(st.margin.maybe_right,
                               KindEntry.margin.maybe_right, theme.margin.right)

\* All three tiers decide in one state: a padding edge set on the Split, the
\* color set only by the theme's entry, and the frame set by neither, so
\* that an entry that exists but leaves the frame unset yields the default.
C1_Witness ==
    LET st == tree[RootId].style
    IN /\ theme.maybe_canvas_split # None
       /\ st.padding.maybe_left # None
       /\ Style_padding(st, theme).left = st.padding.maybe_left[1]
       /\ st.maybe_color = None
       /\ theme.maybe_canvas_split[1].maybe_color # None
       /\ Style_color(st, theme) = theme.maybe_canvas_split[1].maybe_color[1]
       /\ st.maybe_frame = None
       /\ theme.maybe_canvas_split[1].maybe_frame = None
       /\ Style_frame(st, theme) = theme.frame_width

---------------------------------------------------------------------------
(* What the claims about the layout read. *)

RECURSIVE SeqSum(_)
SeqSum(q) == IF q = << >> THEN 0 ELSE Head(q) + SeqSum(Tail(q))

HasSplits(p) == p \in NodeIds /\ tree[p].maybe_splits # None
DirectionOf(p) == tree[p].maybe_splits[1][1]
\* The index of the flow axis and of the cross axis in a Dimensions or Point.
FlowAxis(p) == IF DirectionOf(p) \in {"Up", "Down"} THEN 2 ELSE 1
CrossAxis(p) == 3 - FlowAxis(p)

\* into_ui has been called in this pass on p and on every child of p.
GroupDone(p) ==
    /\ HasSplits(p)
    /\ locals[p] # None
    /\ \A i \in 1 .. Len(Splits(p)) : args[Splits(p)[i]] # None

IsFixed(id) == tree[id].maybe_length # None
NumFlexible(p) == Cardinality({i \in 1 .. Len(Splits(p)) : ~IsFixed(Splits(p)[i])})
\* The sum of the children's fixed lengths.
FixedSum(p) ==
    SeqSum([i \in 1 .. Len(Splits(p)) |->
              IF IsFixed(Splits(p)[i]) THEN tree[Splits(p)[i]].maybe_length[1] ELSE 0])
\* The flow-axis length into_ui was called with for the i-th child of p.
FlowLen(p, i) == args[Splits(p)[i]][1].dim[FlowAxis(p)]
CrossLen(p, i) == args[Splits(p)[i]][1].dim[CrossAxis(p)]
FlexibleSum(p) ==
    SeqSum([i \in 1 .. Len(Splits(p)) |->
              IF IsFixed(Splits(p)[i]) THEN 0 ELSE FlowLen(p, i)])
AllocatedSum(p) == SeqSum([i \in 1 .. Len(Splits(p)) |-> FlowLen(p, i)])
PadFlow(p) == locals[p][1].pad_dim[FlowAxis(p)]
PadCross(p) == locals[p][1].pad_dim[CrossAxis(p)]

---------------------------------------------------------------------------
(* C2 *)

\* C2 as stated: in every group of one or more siblings, also one whose children all have a
\* fixed length, when pad_dim along the flow axis is at least the sum of the
\* fixed lengths, the flexible children's lengths plus the fixed lengths
\* equal pad_dim along the flow axis.
C2_ConservationAllGroups ==
    \A p \in NodeIds :
        (GroupDone(p) /\ Len(Splits(p)) >= 1 /\ PadFlow(p) >= FixedSum(p))
            => FlexibleSum(p) + FixedSum(p) = PadFlow(p)

\* C2, amended: the same for every sibling group that has at least one
\* flexible child.
C2_ConservationWithFlexible ==
    \A p \in NodeIds :
        (GroupDone(p) /\ NumFlexible(p) >= 1 /\ PadFlow(p) >= FixedSum(p))
            => FlexibleSum(p) + FixedSum(p) = PadFlow(p)

\* A laid-out group with a fixed child and a flexible one and room left over.
C2_Witness ==
    \E p \in NodeIds :
        /\ GroupDone(p)
        /\ NumFlexible(p) >= 1
        /\ NumFlexible(p) < Len(Splits(p))
        /\ PadFlow(p) > FixedSum(p)
        /\ FlexibleSum(p) + FixedSum(p) = PadFlow(p)

---------------------------------------------------------------------------
(* C3 *)

\* C3 as stated: in every tree, for every Split with children, the children's flow-axis lengths add up to
\* at most pad_dim along the flow axis, and each child's cross-axis extent
\* is at most pad_dim along the cross axis.
C3_ChildrenWithinPadded ==
    \A p \in NodeIds :
        (GroupDone(p) /\ Len(Splits(p)) >= 1) =>
            /\ AllocatedSum(p) <= PadFlow(p)
            /\ \A i \in 1 .. Len(Splits(p)) : CrossLen(p, i) <= PadCross(p)

\* C3, amended: the flow-axis bound holds when the fixed lengths add up to
\* at most pad_dim along the flow axis; the cross-axis bound holds unless
\* every child is fixed and pad_dim along the cross axis is negative.
C3_ChildrenWithinPaddedWhenFit ==
    \A p \in NodeIds :
        GroupDone(p) =>
            /\ FixedSum(p) <= PadFlow(p) => AllocatedSum(p) <= PadFlow(p)
            /\ (NumFlexible(p) >= 1 \/ PadCross(p) >= 0)
                  => \A i \in 1 .. Len(Splits(p)) : CrossLen(p, i) <= PadCross(p)

\* A laid-out group of two flexible children and no fixed one.
C3_Witness ==
    \E p \in NodeIds :
        /\ GroupDone(p)
        /\ NumFlexible(p) >= 2
        /\ PadFlow(p) > 0
        /\ AllocatedSum(p) = PadFlow(p)
        /\ \A i \in 1 .. Len(Splits(p)) : CrossLen(p, i) = PadCross(p)

---------------------------------------------------------------------------
(* C4 *)

\* C4 as stated: the content dimension written for a Split is the dimension
\* it was allocated minus margin, minus twice the frame, minus padding.
C4_ContentDimIsPadDim ==
    \A id \in NodeIds :
        (updates[id] >= 1 /\ args[id] # None) =>
            LET mg == Style_margin(tree[id].style, theme)
                pd == Style_padding(tree[id].style, theme)
                fr == Style_frame(tree[id].style, theme)
                d == args[id][1].dim
            IN store[id][1].widget_area_dim =
                 << d[1] - (mg.left + mg.right) - 2 * fr - (pd.left + pd.right),
                    d[2] - (mg.top + mg.bottom) - 2 * fr - (pd.top + pd.bottom) >>

---------------------------------------------------------------------------
(* C5 *)

\* C5: when every child of a Split has a fixed length, each child is
\* allocated exactly its own length along the flow axis.
C5_AllFixedKeepLength ==
    \A p \in NodeIds :
        (HasSplits(p) /\ NumFlexible(p) = 0) =>
            \A i \in 1 .. Len(Splits(p)) :
                args[Splits(p)[i]] # None
                    => FlowLen(p, i) = tree[Splits(p)[i]].maybe_length[1]

\* A laid-out group of fixed children that overflow the padded extent.
C5_Witness ==
    \E p \in NodeIds :
        /\ GroupDone(p)
        /\ NumFlexible(p) = 0
        /\ Len(Splits(p)) >= 2
        /\ FixedSum(p) > PadFlow(p)
        /\ AllocatedSum(p) = FixedSum(p)

---------------------------------------------------------------------------
(* C6 *)

PassDone == stack = << >> /\ passes >= 1

\* C6: a pass makes at most one update per Split, and when it is over it
\* has made exactly one per Split of the tree; the Ui then holds a canvas
\* for exactly the identifiers of the tree.
C6_OneUpdatePerNode ==
    /\ \A id \in CanvasIds : updates[id] <= 1
    /\ PassDone =>
         \A id \in CanvasIds :
             IF id \in NodeIds
               THEN updates[id] = 1 /\ store[id] # None
               ELSE updates[id] = 0 /\ store[id] = None

\* The end of a pass over a tree with grandchildren.
C6_Witness ==
    /\ PassDone
    /\ \E p \in NodeIds \ {RootId} : HasSplits(p) /\ Len(Splits(p)) >= 1
    /\ \A id \in NodeIds : updates[id] = 1

\* The end of a pass over a single childless Split.
C6_WitnessLeaf ==
    PassDone /\ NodeIds = {RootId} /\ updates[RootId] = 1

---------------------------------------------------------------------------
(* C7 *)

---------------------------------------------------------------------------
(* C8 *)

\* C8 as stated: every child, fixed or flexible, is allocated pad_dim along
\* the cross axis, also when all children are fixed.
C8_FullCrossExtent ==
    \A p \in NodeIds :
        GroupDone(p) =>
            \A i \in 1 .. Len(Splits(p)) : CrossLen(p, i) = PadCross(p)

---------------------------------------------------------------------------
(* C9 *)

\* The start edge and the sign of a direction, along the flow axis.
StartEdge(p) ==
    LET c == locals[p][1].flow_xy[FlowAxis(p)]
    IN IF DirectionOf(p) \in {"Down", "Left"}
         THEN c + Div(PadFlow(p), 2)
         ELSE c - Div(PadFlow(p), 2)
Sign(p) == IF DirectionOf(p) \in {"Down", "Left"} THEN -1 ELSE 1

\* C9: the k-th child's centre lies, along the flow axis, at the start edge
\* plus the sign times (the lengths of the children before it plus half its
\* own), and on the cross axis at the parent's padded centre.
C9_SiblingsTile ==
    \A p \in NodeIds :
        (HasSplits(p) /\ locals[p] # None) =>
            \A k \in 1 .. Len(Splits(p)) :
                args[Splits(p)[k]] # None =>
                    LET xy == args[Splits(p)[k]][1].xy
                        before == SeqSum([i \in 1 .. k - 1 |-> FlowLen(p, i)])
                    IN /\ xy[FlowAxis(p)] =
                            StartEdge(p) + Sign(p) * (before + Div(FlowLen(p, k), 2))
                       /\ xy[CrossAxis(p)] = locals[p][1].flow_xy[CrossAxis(p)]

\* A laid-out group flowing Left whose second child follows a first of
\* another length, under a parent whose centre is off the origin.
C9_Witness ==
    \E p \in NodeIds :
        /\ GroupDone(p)
        /\ DirectionOf(p) = "Left"
        /\ Len(Splits(p)) >= 2
        /\ FlowLen(p, 1) > 0
        /\ FlowLen(p, 2) > 0
        /\ FlowLen(p, 1) # FlowLen(p, 2)
        /\ locals[p][1].flow_xy # <<0, 0>>

---------------------------------------------------------------------------
(* C10 *)

\* C10 as stated: the children's fixed lengths being non-negative, every
\* dimension a child is allocated is non-negative on both axes.
C10_NoNegativeSize ==
    \A p \in NodeIds :
        (HasSplits(p) /\
         \A i \in 1 .. Len(Splits(p)) :
            IsFixed(Splits(p)[i]) => tree[Splits(p)[i]].maybe_length[1] >= 0) =>
            \A i \in 1 .. Len(Splits(p)) :
                args[Splits(p)[i]] # None =>
                    /\ args[Splits(p)[i]][1].dim[1] >= 0
                    /\ args[Splits(p)[i]][1].dim[2] >= 0

===========================================================================
